---- MODULE Spec2Model ----
(***************************************************************************)
(* Webhook relay of jessewayne86/junk-dispatch.                            *)
(*                                                                         *)
(* The repository holds successive revisions of one Express server.  One   *)
(* revision is deployed at a time (variable rev):                          *)
(*   "server"   src/server.js          tool calls, end-of-call, /intake,   *)
(*                                     /webhooks/sms                       *)
(*   "part_003" src/unnamed/part_003   /intake binds callId -> jobId,      *)
(*                                     end-of-call prefers the job id of   *)
(*                                     the structured data                 *)
(*   "part_000" src/unnamed/part_000   /webhooks/sms, /webhooks/inbound-sms*)
(*                                     and a pass-through /vapi/webhook    *)
(*                                                                         *)
(* A handler runs without interruption up to an awaited outbound call      *)
(* (node's single-threaded event loop); the outbound call settles in a     *)
(* later step, and other requests may be handled in between.  The tool-    *)
(* call loop of server.js is modelled one iteration per step, the content  *)
(* of a tool call being read when the loop reaches it.  toolCallResults is *)
(* append-only: every push is reported in res with its position, and the   *)
(* handler keeps the number of results pushed.                             *)
(*                                                                         *)
(* Strings: "" stands for an absent field as well as for the empty string  *)
(* (both are falsy in `a || b`, and String(undefined || "") is "").        *)
(***************************************************************************)
EXTENDS Integers, Sequences, FiniteSets, TLC

VARIABLES
    rev,                \* the deployed revision
    SHEETS_WEBHOOK_URL, \* TRUE iff process.env.SHEETS_WEBHOOK_URL is set
    OWNER_PHONE,        \* TRUE iff process.env.OWNER_PHONE is set
    SENDGRID,           \* TRUE iff SENDGRID_API_KEY, ALERT_EMAIL_TO and ALERT_EMAIL_FROM are set
    callToJob,          \* server.js: const callToJob = new Map()
    callIdToJobId,      \* part_003: const callIdToJobId = new Map()
    pend,               \* the handlers in flight, one per request slot
    ev,                 \* what the last step handled (operation and its resolved inputs)
    sent,               \* the record the last step handed to postToSheet, or NoRec
    res,                \* the tool-call result the last step pushed, or NoRes
    resp,               \* the HTTP response the last step sent, or NoResp
    hist,               \* per call id: the Job ID of the latest tool-create_intake
                        \* record handed to postToSheet ("" if none), and whether an
                        \* update_intake has bound another job id to the call since
    structuredData,     \* the sd handed to buildPayloadFromStructuredData
    payload             \* the record built from it, as far as it has been built

vars == <<rev, SHEETS_WEBHOOK_URL, OWNER_PHONE, SENDGRID, callToJob, callIdToJobId,
          pend, ev, sent, res, resp, hist, structuredData, payload>>

\* what no handler changes
config == <<rev, SHEETS_WEBHOOK_URL, OWNER_PHONE, SENDGRID>>

\* the normalizer's input and output, followed on their own (NormSpec)
norm == <<structuredData, payload>>

----------------------------------------------------------------------------
(* Bounds *)

MaxInFlight == 2    \* requests being handled at the same time
MaxTools    == 2    \* tool calls in one /vapi/webhook event

Slots == 1..MaxInFlight

----------------------------------------------------------------------------
(* Strings and JavaScript's || *)

\* String.prototype.trim on the strings of the model
Trim(s) ==
    CASE s = " "    -> ""
      [] s = " c2 " -> "c2"
      [] s = " jX " -> "jX"
      [] OTHER      -> s

Truthy(s) == s # ""

\* a || b
Or(a, b) == IF Truthy(a) THEN a ELSE b

\* the keys the correlation table of server.js can hold
CallIds == {"c1", "c2"}
\* generateJobId(): "job_" + Math.random().toString(36).slice(2, 9); the
\* outcome is random, two calls may collide
GeneratedJobIds == {"job_a", "job_b"}

\* Map.prototype.set
MapSet(m, k, v) == [x \in (DOMAIN m) \cup {k} |-> IF x = k THEN v ELSE m[x]]
\* Map.prototype.get, undefined rendered as ""
MapGet(m, k) == IF k \in DOMAIN m THEN m[k] ELSE ""
EmptyMap == [x \in {} |-> ""]

----------------------------------------------------------------------------
(* Field extractors of server.js *)

\* message?.call?.id || message?.callId || message?.call_id ||
\* message?.message?.call?.id || message?.event?.call?.id || ""
getCallId(m) ==
    Or(m.call, Or(m.callId, Or(m.call_id, Or(m.message_call, Or(m.event_call, "")))))

\* a value that is absent, an array, or some other truthy value
Absent   == [kind |-> "absent", len |-> 0]
NonArray == [kind |-> "object", len |-> 0]
Arr(n)   == [kind |-> "array", len |-> n]

\* the tool calls a `for (const tc of toolCalls)` would visit, when toolCalls
\* is an array
ToolCount(v) == IF v.kind = "array" THEN v.len ELSE 0

\* `v || w` on such values: an empty array is truthy
OrVal(v, w) == IF v.kind # "absent" THEN v ELSE w

\* message?.toolCalls || message?.tool_calls || message?.message?.toolCalls ||
\* message?.message?.tool_calls || []
getToolCalls(m) ==
    OrVal(m.toolCalls, OrVal(m.tool_calls,
        OrVal(m.message_toolCalls, OrVal(m.message_tool_calls, Arr(0)))))

\* tc?.name || tc?.toolName || tc?.function?.name || ""
getToolName(tc) == Or(tc.name, Or(tc.toolName, Or(tc.function_name, "")))

\* tc?.id || tc?.toolCallId || tc?.tool_call_id || ""
getToolCallId(tc) == Or(tc.id, Or(tc.toolCallId, Or(tc.tool_call_id, "")))

\* `${BASE_URL}/upload?job=${jobId}`
UploadLink(jobId) == "BASE_URL/upload?job=" \o jobId

----------------------------------------------------------------------------
(* The inputs *)

CallFields(a, b, c, d, e) ==
    [call |-> a, callId |-> b, call_id |-> c, message_call |-> d, event_call |-> e]

\* the shapes of the call id in an inbound event
CallIdShapes ==
    { CallFields("", "", "", "", ""),
      CallFields("c1", " c2 ", "", "", ""),
      CallFields("", " c2 ", "c1", "", ""),
      CallFields("", "", "", "c1", " c2 "),
      CallFields("", "", "", "", " ") }

ToolFields(v, w, x, y) ==
    [toolCalls |-> v, tool_calls |-> w, message_toolCalls |-> x, message_tool_calls |-> y]

\* the shapes of the tool-call list in an inbound event
ToolCallShapes ==
    { ToolFields(Absent, Absent, Absent, Absent),
      ToolFields(NonArray, Arr(1), Absent, Absent),
      ToolFields(Arr(0), Arr(1), Absent, Absent),
      ToolFields(Absent, Absent, Absent, Arr(1)) }
    \cup { ToolFields(Arr(n), Absent, Absent, Absent) : n \in 1..MaxTools }

\* the id fields of the i-th tool call of an event: every tool call of an
\* event has its own id, carried in one of the three places
ToolCallAt(i) ==
    CASE i % 3 = 1 -> [id |-> "t1", toolCallId |-> "x", tool_call_id |-> ""]
      [] i % 3 = 2 -> [id |-> "", toolCallId |-> "t2", tool_call_id |-> "x"]
      [] OTHER     -> [id |-> "", toolCallId |-> "", tool_call_id |-> "t3"]

EventTypes == {"end-of-call-report", "status-update"}

\* the name fields of one tool call
ToolNameShapes ==
    { [name |-> "create_intake", toolName |-> "", function_name |-> ""],
      [name |-> "", toolName |-> "", function_name |-> "update_intake"],
      [name |-> "lookup", toolName |-> "create_intake", function_name |-> ""],
      [name |-> "", toolName |-> "", function_name |-> ""] }

\* the arguments of one tool call.  A mid-call event carries no
\* analysis.structuredData, so the structured data of a tool call is its args
ToolArgs ==
    { [callId |-> c, jobId |-> j[1], JobID |-> j[2], photoLink |-> ""] :
        c \in {"", " ", " c2 "},
        j \in {<<"", "">>, <<" jX ", "">>, <<"", " jX ">>, <<" ", " jX ">>} }

\* the structured data of an end-of-call report or of an /intake body, as far
\* as the job id, the call id and the photo link go
StructuredData ==
    { [jobId |-> "", JobID |-> "", callId |-> "", photoLink |-> ""],
      [jobId |-> "jX", JobID |-> "", callId |-> "", photoLink |-> ""],
      [jobId |-> "jX", JobID |-> "job_a", callId |-> "", photoLink |-> ""] }
IntakeData ==
    { [jobId |-> "", JobID |-> "", callId |-> "", photoLink |-> ""],
      [jobId |-> " jX ", JobID |-> "", callId |-> "c1", photoLink |-> "p"] }

\* what an outbound HTTP call to the sheet can do once issued
SinkOutcomes == {"json", "raw", "http_error", "network_error"}
Rejects(o)   == o \in {"http_error", "network_error"}

----------------------------------------------------------------------------
(* Records, results, responses *)

NoRec == [event |-> "none", callId |-> "", jobId |-> ""]
\* a payload handed to postToSheet; the fetch is issued iff SHEETS_WEBHOOK_URL
Rec(event, callId, jobId) == [event |-> event, callId |-> callId, jobId |-> jobId]

NoResp == [route |-> "none", status |-> 0, body |-> "none", n |-> 0,
           jobId |-> "", photoLink |-> ""]
Resp(route, status, body) ==
    [route |-> route, status |-> status, body |-> body, n |-> 0,
     jobId |-> "", photoLink |-> ""]

NoRes == [pos |-> 0, toolCallId |-> "", ok |-> FALSE, jobId |-> "", photoLink |-> "",
          sheet |-> "", error |-> ""]
Result(toolCallId, ok, jobId, photoLink, sheet, error) ==
    [pos |-> 0, toolCallId |-> toolCallId, ok |-> ok, jobId |-> jobId,
     photoLink |-> photoLink, sheet |-> sheet, error |-> error]

NoCur == [tool |-> "", callId |-> "", jobId |-> "", photoLink |-> ""]
Idle  == [pc |-> "idle", route |-> "", callId |-> "", n |-> 0, i |-> 0, k |-> 0,
          cur |-> NoCur]

\* tools: how many tool calls the handler found in the event
NoEv == [op |-> "none", type |-> "", callId |-> "", explicit |-> "", minted |-> "",
         tools |-> 0]
Ev(op, callId, explicit, minted) ==
    [op |-> op, type |-> "", callId |-> callId, explicit |-> explicit, minted |-> minted,
     tools |-> 0]

----------------------------------------------------------------------------
(* server.js *)

\* function generateJobId(): one of the ids Math.random can produce
generateJobId == GeneratedJobIds

\* ev, sent, res and resp show what one step did: they are read off before
\* the next step is taken
Quiet == ev = NoEv

\* a request that arrives is handled in the first free slot
Free(s) == Quiet /\ pend[s].pc = "idle" /\ \A t \in Slots : t < s => pend[t].pc # "idle"

\* the handler in slot s stands at pc
At(s, pc) == Quiet /\ pend[s].pc = pc

\* a loop that answers at once when a tool call is rejected or fails
Push_AbortOnFailure(s, result) ==
    LET p == pend[s]
    IN  /\ res' = [result EXCEPT !.pos = p.k + 1]
        /\ IF p.i < p.n /\ result.ok
           THEN /\ pend' = [pend EXCEPT ![s] = [p EXCEPT !.pc = "loop", !.i = p.i + 1,
                                                    !.k = p.k + 1, !.cur = NoCur]]
                /\ resp' = NoResp
           ELSE /\ pend' = [pend EXCEPT ![s] = Idle]
                /\ resp' = [Resp("/vapi/webhook", 200, "toolCallResults")
                               EXCEPT !.n = p.k + 1]

\* toolCallResults.push(result); then the next iteration of the loop, or after
\* the last one `return res.status(200).json({ toolCallResults })`
Push(s, result) ==
    LET p == pend[s]
    IN  /\ res' = [result EXCEPT !.pos = p.k + 1]
        /\ IF p.i < p.n
           THEN /\ pend' = [pend EXCEPT ![s] = [p EXCEPT !.pc = "loop", !.i = p.i + 1,
                                                    !.k = p.k + 1, !.cur = NoCur]]
                /\ resp' = NoResp
           ELSE /\ pend' = [pend EXCEPT ![s] = Idle]
                /\ resp' = [Resp("/vapi/webhook", 200, "toolCallResults")
                               EXCEPT !.n = p.k + 1]

\* a create_intake that mints a job id whether or not the call has one
ReuseOrCreate_Always(existingJobId, g) == g

\* the job id create_intake uses: `existingJobId || generateJobId()`
ReuseOrCreate(existingJobId, g) == Or(existingJobId, g)

\* a create_intake that does not store the job id before it awaits the sheet
CreateIntake_StoreLate(s, args, g) ==
    LET p == pend[s]
        toolCallId == getToolCallId(ToolCallAt(p.i))
        resolvedCallId == Trim(Or(args.callId, Or(p.callId, "")))
        existingJobId == MapGet(callToJob, resolvedCallId)
        jobId == ReuseOrCreate(existingJobId, g)
        photoLink == Or(args.photoLink, UploadLink(jobId))
        explicit == Or(args.jobId, args.JobID)
    IN  IF resolvedCallId = ""
        THEN /\ Push(s, Result(toolCallId, FALSE, "", "", "", "Missing callId"))
             /\ ev' = Ev("create_intake", "", explicit, "")
             /\ sent' = NoRec
             /\ UNCHANGED <<callToJob, hist>>
        ELSE /\ callToJob' = IF SHEETS_WEBHOOK_URL THEN callToJob
                             ELSE MapSet(callToJob, resolvedCallId, jobId)
             /\ ev' = Ev("create_intake", resolvedCallId, explicit,
                         IF existingJobId # "" THEN "" ELSE g)
             /\ sent' = Rec("tool-create_intake", resolvedCallId, jobId)
             /\ hist' = [hist EXCEPT ![resolvedCallId] =
                            [created |-> jobId, rebound |-> FALSE]]
             /\ IF SHEETS_WEBHOOK_URL
                THEN /\ pend' = [pend EXCEPT ![s] =
                            [p EXCEPT !.pc = "await_tool",
                                      !.cur = [tool |-> "create_intake",
                                               callId |-> resolvedCallId,
                                               jobId |-> jobId,
                                               photoLink |-> photoLink]]]
                     /\ res' = NoRes
                     /\ resp' = NoResp
                ELSE Push(s, Result(toolCallId, TRUE, jobId, photoLink, "skipped", ""))

\* the create_intake branch of the tool-call loop, up to `await postToSheet`
CreateIntake(s, args, g) ==
    LET p == pend[s]
        toolCallId == getToolCallId(ToolCallAt(p.i))
        resolvedCallId == Trim(Or(args.callId, Or(p.callId, "")))
        existingJobId == MapGet(callToJob, resolvedCallId)
        jobId == ReuseOrCreate(existingJobId, g)
        photoLink == Or(args.photoLink, UploadLink(jobId))
        explicit == Or(args.jobId, args.JobID)
    IN  IF resolvedCallId = ""
        THEN /\ Push(s, Result(toolCallId, FALSE, "", "", "", "Missing callId"))
             /\ ev' = Ev("create_intake", "", explicit, "")
             /\ sent' = NoRec
             /\ UNCHANGED <<callToJob, hist>>
        ELSE /\ callToJob' = MapSet(callToJob, resolvedCallId, jobId)
             /\ ev' = Ev("create_intake", resolvedCallId, explicit,
                         IF existingJobId # "" THEN "" ELSE g)
             /\ sent' = Rec("tool-create_intake", resolvedCallId, jobId)
             /\ hist' = [hist EXCEPT ![resolvedCallId] =
                            [created |-> jobId, rebound |-> FALSE]]
             /\ IF SHEETS_WEBHOOK_URL
                THEN /\ pend' = [pend EXCEPT ![s] =
                            [p EXCEPT !.pc = "await_tool",
                                      !.cur = [tool |-> "create_intake",
                                               callId |-> resolvedCallId,
                                               jobId |-> jobId,
                                               photoLink |-> photoLink]]]
                     /\ res' = NoRes
                     /\ resp' = NoResp
                ELSE Push(s, Result(toolCallId, TRUE, jobId, photoLink, "skipped", ""))

\* an update_intake that prefers the job id of the table to the one in its arguments
UpdateJobId_PreferMapped(args, mappedJobId) ==
    Trim(Or(mappedJobId, Or(args.jobId, Or(args.JobID, ""))))

\* the job id update_intake uses:
\* String(args.jobId || args["Job ID"] || mappedJobId || "").trim()
UpdateJobId(args, mappedJobId) == Trim(Or(args.jobId, Or(args.JobID, Or(mappedJobId, ""))))

\* a bind that keeps the first job id of a call
Bind_KeepFirst(table, resolvedCallId, jobId) ==
    IF resolvedCallId # "" /\ MapGet(table, resolvedCallId) = ""
    THEN MapSet(table, resolvedCallId, jobId)
    ELSE table

\* a bind without the `if (resolvedCallId)` guard
Bind_Unguarded(table, resolvedCallId, jobId) == MapSet(table, resolvedCallId, jobId)

\* `if (resolvedCallId) callToJob.set(resolvedCallId, jobId)`
Bind(table, resolvedCallId, jobId) ==
    IF resolvedCallId # "" THEN MapSet(table, resolvedCallId, jobId) ELSE table

\* the update_intake branch of the tool-call loop, up to `await postToSheet`
UpdateIntake(s, args) ==
    LET p == pend[s]
        toolCallId == getToolCallId(ToolCallAt(p.i))
        resolvedCallId == Trim(Or(args.callId, Or(p.callId, "")))
        mappedJobId == IF resolvedCallId # "" THEN MapGet(callToJob, resolvedCallId) ELSE ""
        jobId == UpdateJobId(args, mappedJobId)
        explicit == Or(args.jobId, args.JobID)
    IN  /\ ev' = Ev("update_intake", resolvedCallId, explicit, "")
        /\ IF jobId = ""
           THEN /\ Push(s, Result(toolCallId, FALSE, "", "", "",
                                  "Missing jobId (and no callId->jobId mapping found)"))
                /\ sent' = NoRec
                /\ UNCHANGED <<callToJob, hist>>
           ELSE /\ callToJob' = Bind(callToJob, resolvedCallId, jobId)
                /\ hist' = IF /\ resolvedCallId # ""
                              /\ hist[resolvedCallId].created # ""
                              /\ hist[resolvedCallId].created # jobId
                           THEN [hist EXCEPT ![resolvedCallId].rebound = TRUE]
                           ELSE hist
                /\ sent' = Rec("tool-update_intake", resolvedCallId, jobId)
                /\ IF SHEETS_WEBHOOK_URL
                   THEN /\ pend' = [pend EXCEPT ![s] =
                               [p EXCEPT !.pc = "await_tool",
                                         !.cur = [tool |-> "update_intake",
                                                  callId |-> resolvedCallId,
                                                  jobId |-> jobId,
                                                  photoLink |-> ""]]]
                        /\ res' = NoRes
                        /\ resp' = NoResp
                   ELSE Push(s, Result(toolCallId, TRUE, jobId, "", "skipped", ""))

\* an unknown tool that is skipped without a result
UnhandledTool_Skip(s, toolName) ==
    LET p == pend[s]
    IN  /\ pend' = [pend EXCEPT ![s] =
                       IF p.i < p.n THEN [p EXCEPT !.i = p.i + 1] ELSE Idle]
        /\ resp' = IF p.i < p.n THEN NoResp
                   ELSE [Resp("/vapi/webhook", 200, "toolCallResults") EXCEPT !.n = p.k]
        /\ res' = NoRes
        /\ ev' = Ev("unhandled_tool", "", "", "")
        /\ sent' = NoRec
        /\ UNCHANGED <<callToJob, hist>>

\* the end of the loop body: a tool that is neither create_intake nor update_intake
UnhandledTool(s, toolName) ==
    LET toolCallId == getToolCallId(ToolCallAt(pend[s].i))
    IN  /\ Push(s, Result(toolCallId, FALSE, "", "", "", "Unhandled tool: " \o toolName))
        /\ ev' = Ev("unhandled_tool", "", "", "")
        /\ sent' = NoRec
        /\ UNCHANGED <<callToJob, hist>>

\* one iteration of `for (const tc of toolCalls)`
ToolCallStep(s) ==
    /\ rev = "server"
    /\ At(s, "loop")
    /\ \E tn \in ToolNameShapes :
         LET toolName == getToolName(tn)
         IN  CASE toolName = "create_intake" ->
                    \E args \in ToolArgs, g \in generateJobId : CreateIntake(s, args, g)
               [] toolName = "update_intake" ->
                    \E args \in ToolArgs : UpdateIntake(s, args)
               [] OTHER -> UnhandledTool(s, toolName)
    /\ UNCHANGED <<config, norm, callIdToJobId>>

\* a create_intake that takes its entry back when the sheet write fails
ToolSettles_Rollback(s) ==
    /\ rev = "server"
    /\ At(s, "await_tool")
    /\ \E o \in SinkOutcomes :
         LET cur == pend[s].cur
             toolCallId == getToolCallId(ToolCallAt(pend[s].i))
         IN  /\ IF Rejects(o)
                THEN Push(s, Result(toolCallId, FALSE, "", "", "",
                                    "Sheet write failed (" \o cur.tool \o ")"))
                ELSE Push(s, Result(toolCallId, TRUE, cur.jobId, cur.photoLink, o, ""))
             /\ ev' = Ev(IF Rejects(o) THEN "tool-settle-failed" ELSE "tool-settle",
                         "", "", "")
             /\ callToJob' = IF Rejects(o) /\ cur.tool = "create_intake"
                             THEN [c \in DOMAIN callToJob \ {cur.callId} |-> callToJob[c]]
                             ELSE callToJob
    /\ sent' = NoRec
    /\ UNCHANGED <<config, norm, callIdToJobId, hist>>

\* a tool branch that posts the record again when the sheet write fails
ToolSettles_Retry(s) ==
    /\ rev = "server"
    /\ At(s, "await_tool")
    /\ \E o \in SinkOutcomes :
         LET cur == pend[s].cur
             toolCallId == getToolCallId(ToolCallAt(pend[s].i))
         IN  /\ IF Rejects(o)
                THEN /\ sent' = Rec("tool-" \o cur.tool, cur.callId, cur.jobId)
                     /\ UNCHANGED pend
                     /\ res' = NoRes
                     /\ resp' = NoResp
                ELSE /\ Push(s, Result(toolCallId, TRUE, cur.jobId, cur.photoLink, o, ""))
                     /\ sent' = NoRec
             /\ ev' = Ev(IF Rejects(o) THEN "tool-settle-failed" ELSE "tool-settle",
                         "", "", "")
    /\ UNCHANGED <<config, norm, callToJob, callIdToJobId, hist>>

\* the awaited postToSheet of a tool call settles: the try/catch around it
ToolSettles(s) ==
    /\ rev = "server"
    /\ At(s, "await_tool")
    /\ \E o \in SinkOutcomes :
         LET cur == pend[s].cur
             toolCallId == getToolCallId(ToolCallAt(pend[s].i))
         IN  /\ IF Rejects(o)
                THEN Push(s, Result(toolCallId, FALSE, "", "", "",
                                    "Sheet write failed (" \o cur.tool \o ")"))
                ELSE Push(s, Result(toolCallId, TRUE, cur.jobId, cur.photoLink, o, ""))
             /\ ev' = Ev(IF Rejects(o) THEN "tool-settle-failed" ELSE "tool-settle",
                         "", "", "")
    /\ sent' = NoRec
    /\ UNCHANGED <<config, norm, callToJob, callIdToJobId, hist>>

\* an end-of-call branch that does not consult the table
EndOfCallJobId_Fresh(table, callId, g) == g

\* the job id of the end-of-call record:
\* (callId && callToJob.get(callId)) ? callToJob.get(callId) : generateJobId()
EndOfCallJobId(table, callId, g) ==
    IF callId # "" /\ MapGet(table, callId) # "" THEN MapGet(table, callId) ELSE g

\* a /vapi/webhook that reports its outcome in the status
VapiOk_Error == Resp("/vapi/webhook", 500, "error")

\* `return res.status(200).send("ok")`, at the end of the try and in the catch
VapiOk == Resp("/vapi/webhook", 200, "ok")

\* an end-of-call branch that stores the job id it used
EndOfCallTable_Store(table, callId, jobId) ==
    IF callId # "" THEN MapSet(table, callId, jobId) ELSE table

\* an end-of-call branch that drops the entry of the call that ended
EndOfCallTable_Evict(table, callId, jobId) ==
    [c \in DOMAIN table \ {callId} |-> table[c]]

\* what the end-of-call-report branch does to the correlation table: nothing
EndOfCallTable(table, callId, jobId) == table

\* an end-of-call branch whose postToSheet fetches whether or not the URL is set
EndOfCallReport_NoGuard(s, callId, sd, tools) ==
    \E g \in generateJobId :
        LET jobId == EndOfCallJobId(callToJob, callId, g)
        IN  /\ sent' = Rec("call-end", callId, jobId)
            /\ ev' = [Ev("end-of-call-report", callId, Or(sd.JobID, sd.jobId),
                         IF callId # "" /\ MapGet(callToJob, callId) # "" THEN "" ELSE g)
                         EXCEPT !.tools = tools]
            /\ callToJob' = EndOfCallTable(callToJob, callId, jobId)
            /\ pend' = [pend EXCEPT ![s] =
                   [Idle EXCEPT !.pc = "await_eoc", !.route = "/vapi/webhook"]]
            /\ resp' = NoResp

\* the end-of-call-report branch, up to `await postToSheet`
EndOfCallReport(s, callId, sd, tools) ==
    \E g \in generateJobId :
        LET jobId == EndOfCallJobId(callToJob, callId, g)
        IN  /\ sent' = Rec("call-end", callId, jobId)
            /\ ev' = [Ev("end-of-call-report", callId, Or(sd.JobID, sd.jobId),
                         IF callId # "" /\ MapGet(callToJob, callId) # "" THEN "" ELSE g)
                         EXCEPT !.tools = tools]
            /\ callToJob' = EndOfCallTable(callToJob, callId, jobId)
            /\ IF SHEETS_WEBHOOK_URL
               THEN /\ pend' = [pend EXCEPT ![s] =
                           [Idle EXCEPT !.pc = "await_eoc", !.route = "/vapi/webhook"]]
                    /\ resp' = NoResp
               ELSE /\ pend' = [pend EXCEPT ![s] = Idle]
                    /\ resp' = VapiOk

\* a /vapi/webhook that looks at the type of the event before its tool calls
VapiWebhook_ReportFirst(s) ==
    /\ rev = "server"
    /\ Free(s)
    /\ \E type \in EventTypes, tf \in ToolCallShapes, cf \in CallIdShapes :
         LET toolCalls == getToolCalls(tf)
             callId == Trim(Or(getCallId(cf), ""))
         IN  IF type = "end-of-call-report"
             THEN \E sd \in StructuredData :
                      EndOfCallReport(s, callId, sd, ToolCount(toolCalls))
             ELSE IF toolCalls.kind = "array" /\ toolCalls.len > 0
                  THEN /\ pend' = [pend EXCEPT ![s] =
                              [Idle EXCEPT !.pc = "loop", !.route = "/vapi/webhook",
                                           !.callId = callId, !.n = toolCalls.len,
                                           !.i = 1]]
                       /\ ev' = [Ev("tool-calls", callId, "", "")
                                    EXCEPT !.type = type, !.tools = ToolCount(toolCalls)]
                       /\ sent' = NoRec
                       /\ resp' = NoResp
                       /\ callToJob' = callToJob
                  ELSE /\ pend' = [pend EXCEPT ![s] = Idle]
                       /\ ev' = [Ev("other-event", callId, "", "")
                                    EXCEPT !.tools = ToolCount(toolCalls)]
                       /\ sent' = NoRec
                       /\ resp' = VapiOk
                       /\ callToJob' = callToJob
    /\ res' = NoRes
    /\ UNCHANGED <<config, norm, callIdToJobId, hist>>

\* app.post("/vapi/webhook"): a request arrives and is handled up to the first await
VapiWebhook(s) ==
    /\ rev = "server"
    /\ Free(s)
    /\ \E type \in EventTypes, tf \in ToolCallShapes, cf \in CallIdShapes :
         LET toolCalls == getToolCalls(tf)
             callId == Trim(Or(getCallId(cf), ""))
         IN  IF toolCalls.kind = "array" /\ toolCalls.len > 0
             THEN /\ pend' = [pend EXCEPT ![s] =
                         [Idle EXCEPT !.pc = "loop", !.route = "/vapi/webhook",
                                      !.callId = callId, !.n = toolCalls.len, !.i = 1]]
                  /\ ev' = [Ev("tool-calls", callId, "", "")
                               EXCEPT !.type = type, !.tools = ToolCount(toolCalls)]
                  /\ sent' = NoRec
                  /\ resp' = NoResp
                  /\ callToJob' = callToJob
             ELSE IF type = "end-of-call-report"
                  THEN \E sd \in StructuredData :
                           EndOfCallReport(s, callId, sd, ToolCount(toolCalls))
                  ELSE /\ pend' = [pend EXCEPT ![s] = Idle]
                       /\ ev' = [Ev("other-event", callId, "", "")
                                    EXCEPT !.tools = ToolCount(toolCalls)]
                       /\ sent' = NoRec
                       /\ resp' = VapiOk
                       /\ callToJob' = callToJob
    /\ res' = NoRes
    /\ UNCHANGED <<config, norm, callIdToJobId, hist>>

\* app.post("/vapi/webhook") with no parsed body: JSON.stringify(undefined).slice
\* throws inside the try, the catch answers
VapiWebhookThrows(s) ==
    /\ rev = "server"
    /\ Free(s)
    /\ pend' = [pend EXCEPT ![s] = Idle]
    /\ ev' = Ev("exception", "", "", "")
    /\ sent' = NoRec
    /\ res' = NoRes
    /\ resp' = VapiOk
    /\ UNCHANGED <<config, norm, callToJob, callIdToJobId, hist>>

\* the awaited postToSheet of the end-of-call branch settles; both the try and
\* the catch fall through to the response
EndOfCallSettles(s) ==
    /\ rev = "server"
    /\ At(s, "await_eoc")
    /\ \E o \in SinkOutcomes :
         ev' = Ev(IF Rejects(o) THEN "eoc-settle-failed" ELSE "eoc-settle", "", "", "")
    /\ pend' = [pend EXCEPT ![s] = Idle]
    /\ sent' = NoRec
    /\ res' = NoRes
    /\ resp' = VapiOk
    /\ UNCHANGED <<config, norm, callToJob, callIdToJobId, hist>>

\* the response of /intake: res.json({ ok: true, jobId, photoLink })
IntakeResp(jobId, photoLink) ==
    [Resp("/intake", 200, "ok-jobId-photoLink") EXCEPT !.jobId = jobId,
                                                       !.photoLink = photoLink]

\* what /intake of server.js does to the correlation table: nothing
IntakeBind(table, callId, jobId) == table

\* app.post("/intake") of server.js, up to `await postToSheet`
Intake(s) ==
    /\ rev = "server"
    /\ Free(s)
    /\ \E cf \in CallIdShapes, sd \in IntakeData, g \in generateJobId :
         LET jobId == g
             callId == Trim(Or(getCallId(cf), ""))
             photoLink == Or(sd.photoLink, UploadLink(jobId))
         IN  /\ callToJob' = IntakeBind(callToJob, callId, jobId)
             /\ sent' = Rec("http-intake", callId, jobId)
             /\ ev' = Ev("intake", callId, Or(sd.JobID, sd.jobId), g)
             /\ IF SHEETS_WEBHOOK_URL
                THEN /\ pend' = [pend EXCEPT ![s] =
                            [Idle EXCEPT !.pc = "await_intake", !.route = "/intake",
                                         !.callId = callId,
                                         !.cur = [NoCur EXCEPT !.jobId = jobId,
                                                               !.photoLink = photoLink]]]
                     /\ resp' = NoResp
                ELSE /\ pend' = [pend EXCEPT ![s] = Idle]
                     /\ resp' = IntakeResp(jobId, photoLink)
    /\ res' = NoRes
    /\ UNCHANGED <<config, norm, callIdToJobId, hist>>

\* an /intake that answers with an error when the sheet write fails
IntakeSettles_Reports(s) ==
    /\ rev = "server"
    /\ At(s, "await_intake")
    /\ \E o \in SinkOutcomes :
         /\ ev' = Ev(IF Rejects(o) THEN "intake-settle-failed" ELSE "intake-settle",
                     pend[s].callId, "", "")
         /\ resp' = IF Rejects(o) THEN Resp("/intake", 500, "error")
                    ELSE IntakeResp(pend[s].cur.jobId, pend[s].cur.photoLink)
    /\ pend' = [pend EXCEPT ![s] = Idle]
    /\ sent' = NoRec
    /\ res' = NoRes
    /\ UNCHANGED <<config, norm, callToJob, callIdToJobId, hist>>

\* the awaited postToSheet of /intake settles: the catch only logs, then the
\* response
IntakeSettles(s) ==
    /\ rev = "server"
    /\ At(s, "await_intake")
    /\ \E o \in SinkOutcomes :
         ev' = Ev(IF Rejects(o) THEN "intake-settle-failed" ELSE "intake-settle",
                  pend[s].callId, "", "")
    /\ pend' = [pend EXCEPT ![s] = Idle]
    /\ sent' = NoRec
    /\ res' = NoRes
    /\ resp' = IntakeResp(pend[s].cur.jobId, pend[s].cur.photoLink)
    /\ UNCHANGED <<config, norm, callToJob, callIdToJobId, hist>>

\* app.post("/webhooks/sms") of server.js, up to `await twilioClient.messages.create`
Sms(s) ==
    /\ rev = "server"
    /\ Free(s)
    /\ pend' = [pend EXCEPT ![s] = [Idle EXCEPT !.pc = "await_sms",
                                                !.route = "/webhooks/sms"]]
    /\ ev' = Ev("sms", "", "", "")
    /\ sent' = NoRec
    /\ res' = NoRes
    /\ resp' = NoResp
    /\ UNCHANGED <<config, norm, callToJob, callIdToJobId, hist>>

\* the response of /webhooks/sms of server.js, after the try/catch:
\* res.status(200).send("ok")
SmsResp(failed) == Resp("/webhooks/sms", 200, "ok")

\* the owner notification of /webhooks/sms settles
SmsSettles(s) ==
    /\ rev = "server"
    /\ At(s, "await_sms")
    /\ \E failed \in BOOLEAN :
         /\ ev' = Ev(IF failed THEN "sms-settle-failed" ELSE "sms-settle", "", "", "")
         /\ resp' = SmsResp(failed)
    /\ pend' = [pend EXCEPT ![s] = Idle]
    /\ sent' = NoRec
    /\ res' = NoRes
    /\ UNCHANGED <<config, norm, callToJob, callIdToJobId, hist>>

----------------------------------------------------------------------------
(* src/unnamed/part_003 *)

\* message?.call?.id || message?.callId || message?.conversationId || message?.id || null
getCallIdFromVapiMessage(m) == Or(m.call, Or(m.callId, Or(m.conversationId, Or(m.id, ""))))

\* the call id /intake of part_003 reads: req.body?.call?.id || req.body?.callId ||
\* req.body?.message?.call?.id || req.body?.message?.callId || sd?.callId || null
IntakeCallId(b, sd) ==
    Or(b.call, Or(b.callId, Or(b.message_call, Or(b.message_callId, Or(sd.callId, "")))))

VapiIdShapes3 ==
    { [call |-> "", callId |-> "", conversationId |-> "", id |-> ""],
      [call |-> "c1", callId |-> "c2", conversationId |-> "", id |-> ""],
      [call |-> "", callId |-> "c2", conversationId |-> "c1", id |-> ""],
      [call |-> "", callId |-> "", conversationId |-> "", id |-> "c1"] }

IntakeIdShapes3 ==
    { [call |-> "", callId |-> "", message_call |-> "", message_callId |-> ""],
      [call |-> "c1", callId |-> "c2", message_call |-> "", message_callId |-> ""],
      [call |-> "", callId |-> "c2", message_call |-> "c1", message_callId |-> ""],
      [call |-> "", callId |-> "", message_call |-> "", message_callId |-> "c2"] }

\* the job id of the end-of-call record of part_003:
\* (sd && (sd["Job ID"] || sd.jobId)) || (callId ? callIdToJobId.get(callId) : null)
\*   || ("job_" + Math.random()...)
EndOfCallJobId3(table, callId, sd, g) ==
    Or(Or(sd.JobID, sd.jobId), Or(IF callId # "" THEN MapGet(table, callId) ELSE "", g))

Vapi3Ok == Resp("/vapi/webhook", 200, "ok")

\* what the end-of-call-report branch of part_003 does to the table: nothing
EndOfCallTable3(table, callId, jobId) == table

\* app.post("/vapi/webhook") of part_003, up to `await postToSheet`
VapiWebhook3(s) ==
    /\ rev = "part_003"
    /\ Free(s)
    /\ \E type \in EventTypes, cf \in VapiIdShapes3 :
         IF type = "end-of-call-report"
         THEN \E sd \in StructuredData, g \in generateJobId :
              LET callId == getCallIdFromVapiMessage(cf)
                  jobId == EndOfCallJobId3(callIdToJobId, callId, sd, g)
              IN  /\ sent' = Rec("call-end", "", jobId)
                  /\ ev' = Ev("end-of-call-report", callId, Or(sd.JobID, sd.jobId),
                              IF Or(sd.JobID, sd.jobId) = ""
                                 /\ MapGet(callIdToJobId, callId) = ""
                              THEN g ELSE "")
                  /\ callIdToJobId' = EndOfCallTable3(callIdToJobId, callId, jobId)
                  /\ IF SHEETS_WEBHOOK_URL
                     THEN /\ pend' = [pend EXCEPT ![s] =
                                 [Idle EXCEPT !.pc = "await_eoc", !.route = "/vapi/webhook"]]
                          /\ resp' = NoResp
                     ELSE /\ pend' = [pend EXCEPT ![s] = Idle]
                          /\ resp' = Vapi3Ok
         ELSE /\ pend' = [pend EXCEPT ![s] = Idle]
              /\ ev' = Ev("other-event", "", "", "")
              /\ sent' = NoRec
              /\ resp' = Vapi3Ok
              /\ callIdToJobId' = callIdToJobId
    /\ res' = NoRes
    /\ UNCHANGED <<config, norm, callToJob, hist>>

\* the awaited postToSheet of the end-of-call branch of part_003 settles
EndOfCallSettles3(s) ==
    /\ rev = "part_003"
    /\ At(s, "await_eoc")
    /\ \E o \in SinkOutcomes :
         ev' = Ev(IF Rejects(o) THEN "eoc-settle-failed" ELSE "eoc-settle", "", "", "")
    /\ pend' = [pend EXCEPT ![s] = Idle]
    /\ sent' = NoRec
    /\ res' = NoRes
    /\ resp' = Vapi3Ok
    /\ UNCHANGED <<config, norm, callToJob, callIdToJobId, hist>>

\* `if (callId) callIdToJobId.set(callId, jobId)` of /intake of part_003
IntakeBind3(table, callId, jobId) ==
    IF callId # "" THEN MapSet(table, callId, jobId) ELSE table

\* app.post("/intake") of part_003, up to `await postToSheet`
Intake3(s) ==
    /\ rev = "part_003"
    /\ Free(s)
    /\ \E b \in IntakeIdShapes3, sd \in IntakeData, g \in generateJobId :
         LET jobId == g
             photoLink == UploadLink(jobId)
             callId == IntakeCallId(b, sd)
         IN  /\ callIdToJobId' = IntakeBind3(callIdToJobId, callId, jobId)
             /\ sent' = Rec("intake", "", jobId)
             /\ ev' = Ev("intake", callId, Or(sd.JobID, sd.jobId), g)
             /\ IF SHEETS_WEBHOOK_URL
                THEN /\ pend' = [pend EXCEPT ![s] =
                            [Idle EXCEPT !.pc = "await_intake", !.route = "/intake",
                                         !.callId = callId,
                                         !.cur = [NoCur EXCEPT !.jobId = jobId,
                                                               !.photoLink = photoLink]]]
                     /\ resp' = NoResp
                ELSE /\ pend' = [pend EXCEPT ![s] = Idle]
                     /\ resp' = IntakeResp(jobId, photoLink)
    /\ res' = NoRes
    /\ UNCHANGED <<config, norm, callToJob, hist>>

\* the awaited postToSheet of /intake of part_003 settles
IntakeSettles3(s) ==
    /\ rev = "part_003"
    /\ At(s, "await_intake")
    /\ \E o \in SinkOutcomes :
         ev' = Ev(IF Rejects(o) THEN "intake-settle-failed" ELSE "intake-settle",
                  pend[s].callId, "", "")
    /\ pend' = [pend EXCEPT ![s] = Idle]
    /\ sent' = NoRec
    /\ res' = NoRes
    /\ resp' = IntakeResp(pend[s].cur.jobId, pend[s].cur.photoLink)
    /\ UNCHANGED <<config, norm, callToJob, callIdToJobId, hist>>

----------------------------------------------------------------------------
(* src/unnamed/part_000 *)

\* app.post("/webhooks/sms") of part_000, up to `await twilioClient.messages.create`
Sms0(s) ==
    /\ rev = "part_000"
    /\ Free(s)
    /\ pend' = [pend EXCEPT ![s] = [Idle EXCEPT !.pc = "await_sms",
                                                !.route = "/webhooks/sms"]]
    /\ ev' = Ev("sms", "", "", "")
    /\ sent' = NoRec
    /\ res' = NoRes
    /\ resp' = NoResp
    /\ UNCHANGED <<config, norm, callToJob, callIdToJobId, hist>>

\* the response of /webhooks/sms of part_000: res.send("ok") in the try,
\* res.status(500).send("error") in the catch
SmsResp0(failed) ==
    IF failed THEN Resp("/webhooks/sms", 500, "error") ELSE Resp("/webhooks/sms", 200, "ok")

\* the owner notification of /webhooks/sms of part_000 settles
SmsSettles0(s) ==
    /\ rev = "part_000"
    /\ At(s, "await_sms")
    /\ \E failed \in BOOLEAN :
         /\ ev' = Ev(IF failed THEN "sms-settle-failed" ELSE "sms-settle", "", "", "")
         /\ resp' = SmsResp0(failed)
    /\ pend' = [pend EXCEPT ![s] = Idle]
    /\ sent' = NoRec
    /\ res' = NoRes
    /\ UNCHANGED <<config, norm, callToJob, callIdToJobId, hist>>

\* the first downstream call /webhooks/inbound-sms awaits from step `from` on:
\* notifyOwnerSms returns at once without OWNER_PHONE, notifyOwnerEmail without
\* the SendGrid settings; the forward to the voice platform is always issued
NextInboundStep(from) ==
    IF from = "start" /\ OWNER_PHONE THEN "await_owner_sms"
    ELSE IF from \in {"start", "await_owner_sms"} /\ SENDGRID THEN "await_owner_email"
    ELSE "await_forward"

\* app.post("/webhooks/inbound-sms"), up to the first awaited downstream call
InboundSms(s) ==
    /\ rev = "part_000"
    /\ Free(s)
    /\ pend' = [pend EXCEPT ![s] = [Idle EXCEPT !.pc = NextInboundStep("start"),
                                                !.route = "/webhooks/inbound-sms"]]
    /\ ev' = Ev("inbound-sms", "", "", "")
    /\ sent' = NoRec
    /\ res' = NoRes
    /\ resp' = NoResp
    /\ UNCHANGED <<config, norm, callToJob, callIdToJobId, hist>>

\* an inbound-sms that gives up when an owner alert fails
AlertSettles_AbortOnFailure(s) ==
    /\ rev = "part_000"
    /\ Quiet
    /\ pend[s].pc \in {"await_owner_sms", "await_owner_email"}
    /\ \E failed \in BOOLEAN :
         /\ ev' = Ev(IF failed THEN "alert-failed" ELSE "alert-sent", "", "", "")
         /\ pend' = [pend EXCEPT ![s] = IF failed THEN Idle
                                        ELSE [@ EXCEPT !.pc = NextInboundStep(@)]]
         /\ resp' = IF failed
                    THEN Resp("/webhooks/inbound-sms", 200, "<Response></Response>")
                    ELSE NoResp
    /\ sent' = NoRec
    /\ res' = NoRes
    /\ UNCHANGED <<config, norm, callToJob, callIdToJobId, hist>>

\* an owner alert settles (try/catch around notifyOwnerSms, notifyOwnerEmail):
\* whatever the outcome, the handler goes on to the next step
AlertSettles(s) ==
    /\ rev = "part_000"
    /\ Quiet
    /\ pend[s].pc \in {"await_owner_sms", "await_owner_email"}
    /\ \E failed \in BOOLEAN :
         ev' = Ev(IF failed THEN "alert-failed" ELSE "alert-sent", "", "", "")
    /\ pend' = [pend EXCEPT ![s].pc = NextInboundStep(pend[s].pc)]
    /\ sent' = NoRec
    /\ res' = NoRes
    /\ resp' = NoResp
    /\ UNCHANGED <<config, norm, callToJob, callIdToJobId, hist>>

\* what the forward to https://api.vapi.ai/twilio/sms can yield: a body
\* (whatever the status), or a rejected fetch / text()
ForwardOutcomes == {"<Response><Message>hi</Message></Response>", "",
                    "upstream error page", "network_error"}

\* an inbound-sms that acknowledges with the empty TwiML document in every case
InboundResp_Ack(o) == Resp("/webhooks/inbound-sms", 200, "<Response></Response>")

\* the response of /webhooks/inbound-sms: the forwarded body, or the empty
\* TwiML document from the catch
InboundResp(o) ==
    IF o = "network_error"
    THEN Resp("/webhooks/inbound-sms", 200, "<Response></Response>")
    ELSE Resp("/webhooks/inbound-sms", 200, o)

\* the forward settles
ForwardSettles(s) ==
    /\ rev = "part_000"
    /\ At(s, "await_forward")
    /\ \E o \in ForwardOutcomes :
         /\ ev' = Ev(IF o = "network_error" THEN "forward-failed" ELSE "forwarded",
                     "", o, "")
         /\ resp' = InboundResp(o)
    /\ pend' = [pend EXCEPT ![s] = Idle]
    /\ sent' = NoRec
    /\ res' = NoRes
    /\ UNCHANGED <<config, norm, callToJob, callIdToJobId, hist>>

\* the response of /vapi/webhook of part_000: res.json({ ok: true }) in the
\* try, res.status(200).json({ ok: true }) in the catch
Vapi0Resp == Resp("/vapi/webhook", 200, "ok-true")

\* app.post("/vapi/webhook") of part_000: the body is forwarded to the sheet as is
VapiWebhook0(s) ==
    /\ rev = "part_000"
    /\ Free(s)
    /\ \E type \in EventTypes :
         ev' = Ev(IF type = "end-of-call-report" THEN "end-of-call-report"
                                                 ELSE "other-event", "", "", "")
    /\ IF SHEETS_WEBHOOK_URL
       THEN /\ pend' = [pend EXCEPT ![s] = [Idle EXCEPT !.pc = "await_sheet",
                                                        !.route = "/vapi/webhook"]]
            /\ sent' = Rec("raw-body", "", "")
            /\ resp' = NoResp
       ELSE /\ pend' = [pend EXCEPT ![s] = Idle]
            /\ sent' = NoRec
            /\ resp' = Vapi0Resp
    /\ res' = NoRes
    /\ UNCHANGED <<config, norm, callToJob, callIdToJobId, hist>>

\* the awaited fetch of /vapi/webhook of part_000 settles (inner try/catch)
VapiSettles0(s) ==
    /\ rev = "part_000"
    /\ At(s, "await_sheet")
    /\ \E o \in SinkOutcomes :
         ev' = Ev(IF o = "network_error" THEN "sheet-settle-failed" ELSE "sheet-settle",
                  "", "", "")
    /\ pend' = [pend EXCEPT ![s] = Idle]
    /\ sent' = NoRec
    /\ res' = NoRes
    /\ resp' = Vapi0Resp
    /\ UNCHANGED <<config, norm, callToJob, callIdToJobId, hist>>

----------------------------------------------------------------------------
(* buildPayloadFromStructuredData *)

\* a field of the structured data that may be absent, a string or an array
\* of strings
Nil     == [kind |-> "absent", str |-> "", list |-> <<>>]
Str(x)  == [kind |-> "string", str |-> x, list |-> <<>>]
List(l) == [kind |-> "list", str |-> "", list |-> l]

\* truthiness of such a field: every array is truthy, also the empty one
ValTruthy(v) == v.kind = "list" \/ (v.kind = "string" /\ v.str # "")
\* Array.isArray(v)
IsArray(v) == v.kind = "list"
\* v?.length
LengthOf(v) == IF v.kind = "list" THEN Len(v.list)
               ELSE IF v.kind = "string" THEN Len(v.str) ELSE 0
\* whether v.join is a function
HasJoin(v) == v.kind = "list"

\* Array.prototype.join
RECURSIVE Join(_, _)
Join(l, sep) ==
    IF l = <<>> THEN ""
    ELSE IF Len(l) = 1 THEN l[1]
    ELSE l[1] \o sep \o Join(Tail(l), sep)

\* `${v}` for a truthy field that is not known to be an array
Text(v) == IF v.kind = "list" THEN Join(v.list, ",") ELSE v.str

\* .filter(Boolean) on an array of strings
FilterBoolean(l) == SelectSeq(l, LAMBDA x : x # "")

\* cond ? `${label}: ${text}` : ""
Part(cond, label, text) == IF cond THEN label \o ": " \o text ELSE ""

NoSd ==
    [callbackNumber |-> "", phone |-> "", from |-> "", jobType |-> "", location |-> "",
     size |-> "", deadline |-> "", access |-> Nil, specialItems |-> Nil]

\* a phone rule that takes the placeholder for a number
CustomerPhone_NoPlaceholder(d) == Or(d.callbackNumber, Or(d.phone, Or(d.from, "")))

\* sd.callbackNumber && sd.callbackNumber !== "Same number"
\*   ? sd.callbackNumber : (sd.phone || sd.from || "")
CustomerPhone(d) ==
    IF Truthy(d.callbackNumber) /\ d.callbackNumber # "Same number"
    THEN d.callbackNumber
    ELSE Or(d.phone, Or(d.from, ""))

\* server.js, part_003: Array.isArray(sd.specialItems)
\*   ? sd.specialItems.join(", ") : (sd.specialItems || "")
specialItemsText(d) ==
    IF IsArray(d.specialItems) THEN Join(d.specialItems.list, ", ")
    ELSE IF ValTruthy(d.specialItems) THEN d.specialItems.str ELSE ""

\* part_003: Array.isArray(sd.access) ? sd.access.join(", ") : (sd.access || "")
accessText(d) ==
    IF IsArray(d.access) THEN Join(d.access.list, ", ")
    ELSE IF ValTruthy(d.access) THEN d.access.str ELSE ""

\* server.js: scopeParts
scopeParts(d) ==
    FilterBoolean(<<
        Part(Truthy(d.jobType), "jobType", d.jobType),
        Part(Truthy(d.location), "location", d.location),
        Part(Truthy(d.size), "size", d.size),
        Part(ValTruthy(d.access), "access",
             IF IsArray(d.access) THEN Join(d.access.list, ", ") ELSE d.access.str),
        Part(Truthy(specialItemsText(d)), "specialItems", specialItemsText(d)),
        Part(Truthy(d.deadline), "deadline", d.deadline) >>)

\* part_003: scopeParts
scopeParts3(d) ==
    FilterBoolean(<<
        Part(Truthy(d.jobType), "jobType", d.jobType),
        Part(Truthy(d.location), "location", d.location),
        Part(Truthy(d.size), "size", d.size),
        Part(Truthy(accessText(d)), "access", accessText(d)),
        Part(Truthy(specialItemsText(d)), "specialItems", specialItemsText(d)),
        Part(Truthy(d.deadline), "deadline", d.deadline) >>)

\* part_001: the segments of description (tier, preferredWindow and escalate
\* are absent from the structured data followed here)
descriptionParts1(d) ==
    FilterBoolean(<<
        Part(Truthy(d.jobType), "jobType", d.jobType),
        Part(Truthy(d.location), "location", d.location),
        Part(Truthy(d.size), "size", d.size),
        Part(Truthy(d.deadline), "deadline", d.deadline),
        Part(IsArray(d.specialItems) /\ LengthOf(d.specialItems) # 0, "specialItems",
             Join(d.specialItems.list, ", ")) >>)

\* part_002: sd?.specialItems?.length ? `specialItems: ${sd.specialItems.join(", ")}` : ""
\* calls join on whatever has a length: a non-empty string has none
Throws2(d) == LengthOf(d.specialItems) # 0 /\ ~HasJoin(d.specialItems)

\* part_002: the segments of description, when building them does not throw
descriptionParts2(d) ==
    FilterBoolean(<<
        Part(Truthy(d.jobType), "jobType", d.jobType),
        Part(Truthy(d.location), "location", d.location),
        Part(Truthy(d.size), "size", d.size),
        Part(Truthy(d.deadline), "deadline", d.deadline),
        Part(LengthOf(d.specialItems) # 0, "specialItems",
             Join(d.specialItems.list, ", ")) >>)

\* no record built (yet), a record built, the builder threw
NoPayload == [state |-> "none", phone |-> "", description |-> ""]
Built(phone, description) ==
    [state |-> "built", phone |-> phone, description |-> description]
Threw == [state |-> "threw", phone |-> "", description |-> ""]

\* buildPayloadFromStructuredData of server.js: "Customer Phone" and
\* "Items / Scope Description"
buildPayloadFromStructuredData(d) == Built(CustomerPhone(d), Join(scopeParts(d), " | "))

\* buildPayloadFromStructuredData of part_003
buildPayloadFromStructuredData3(d) == Built(CustomerPhone(d), Join(scopeParts3(d), " | "))

\* buildPayloadFromStructuredData of part_001: phone and description
buildPayloadFromStructuredData1(d) ==
    Built(CustomerPhone(d), Join(descriptionParts1(d), " | "))

\* the payload literal of /intake of part_002
buildPayload2(d) ==
    IF Throws2(d) THEN Threw
    ELSE Built(CustomerPhone(d), Join(descriptionParts2(d), " | "))

----------------------------------------------------------------------------
(* The specification *)

Revisions == {"server", "part_003", "part_000"}

Init ==
    /\ rev \in Revisions
    /\ SHEETS_WEBHOOK_URL \in BOOLEAN
    /\ OWNER_PHONE \in IF rev = "part_000" THEN BOOLEAN ELSE {TRUE}
    /\ SENDGRID \in IF rev = "part_000" THEN BOOLEAN ELSE {FALSE}
    /\ callToJob = EmptyMap
    /\ callIdToJobId = EmptyMap
    /\ pend = [s \in Slots |-> Idle]
    /\ ev = NoEv
    /\ sent = NoRec
    /\ res = NoRes
    /\ resp = NoResp
    /\ hist = [c \in CallIds |-> [created |-> "", rebound |-> FALSE]]
    /\ structuredData = NoSd
    /\ payload = NoPayload

\* the outputs of the last step have been read off
Observed ==
    /\ ~Quiet
    /\ ev' = NoEv
    /\ sent' = NoRec
    /\ res' = NoRes
    /\ resp' = NoResp
    /\ UNCHANGED <<config, norm, callToJob, callIdToJobId, pend, hist>>

Next ==
    \/ Observed
    \/ \E s \in Slots :
        \/ VapiWebhook(s)
        \/ VapiWebhookThrows(s)
        \/ ToolCallStep(s)
        \/ ToolSettles(s)
        \/ EndOfCallSettles(s)
        \/ Intake(s)
        \/ IntakeSettles(s)
        \/ Sms(s)
        \/ SmsSettles(s)
        \/ VapiWebhook3(s)
        \/ EndOfCallSettles3(s)
        \/ Intake3(s)
        \/ IntakeSettles3(s)
        \/ Sms0(s)
        \/ SmsSettles0(s)
        \/ InboundSms(s)
        \/ AlertSettles(s)
        \/ ForwardSettles(s)
        \/ VapiWebhook0(s)
        \/ VapiSettles0(s)

Spec == Init /\ [][Next]_vars

----------------------------------------------------------------------------
(* Correlation: create_intake, update_intake, end-of-call-report, /intake *)

\* C1, as stated: once a create_intake tool call has handed its record to the
\* relay for a call id c, an end-of-call-report for c in any later request finds
\* one entry for c and writes the call-end record under the Job ID of the
\* tool-create_intake record
C1_CallEndSharesCreateJobId ==
    (/\ rev = "server"
     /\ ev.op = "end-of-call-report"
     /\ ev.callId \in CallIds
     /\ hist[ev.callId].created # "")
    => /\ ev.callId \in DOMAIN callToJob
       /\ sent.event = "call-end"
       /\ sent.jobId = hist[ev.callId].created

\* C1, amended: the same, provided no update_intake has bound another job id to
\* c between the create_intake and the end-of-call-report
C1_CallEndSharesCreateJobIdUnlessRebound ==
    (/\ rev = "server"
     /\ ev.op = "end-of-call-report"
     /\ ev.callId \in CallIds
     /\ hist[ev.callId].created # ""
     /\ ~hist[ev.callId].rebound)
    => /\ ev.callId \in DOMAIN callToJob
       /\ sent.event = "call-end"
       /\ sent.jobId = hist[ev.callId].created

\* an end-of-call-report for a call whose create_intake minted a job id
C1_Witness ==
    /\ rev = "server"
    /\ ev.op = "end-of-call-report"
    /\ ev.callId \in CallIds
    /\ hist[ev.callId].created \in GeneratedJobIds
    /\ ~hist[ev.callId].rebound
    /\ sent.event = "call-end"
    /\ sent.jobId = hist[ev.callId].created

\* C2: a create_intake for a non-empty call id c that is in the table uses the
\* stored job id, mints nothing and leaves the table as it is; one for a c that
\* is not in the table mints a job id, stores c -> id and uses it. The result
\* pushed for the tool call carries the job id of the record. Hence create_intake
\* calls for c with no rebinding update_intake in between all use one job id.
C2_ResolveOrCreateIdempotent ==
    [][ /\ (rev = "server" /\ ev'.op = "create_intake" /\ ev'.callId # "")
           => IF ev'.callId \in DOMAIN callToJob
              THEN /\ callToJob' = callToJob
                   /\ sent'.jobId = callToJob[ev'.callId]
                   /\ ev'.minted = ""
              ELSE /\ ev'.minted \in generateJobId
                   /\ callToJob' = MapSet(callToJob, ev'.callId, ev'.minted)
                   /\ sent'.jobId = ev'.minted
        /\ (rev = "server" /\ ev'.op = "create_intake" /\ ev'.callId # ""
            /\ hist[ev'.callId].created # "" /\ ~hist[ev'.callId].rebound)
           => sent'.jobId = hist[ev'.callId].created
        /\ (rev = "server" /\ ev'.op = "create_intake" /\ ev'.callId # "")
           => \A s \in Slots :
                pend'[s] # pend[s]
                => IF pend'[s].pc = "await_tool"
                   THEN pend'[s].cur.jobId = sent'.jobId
                   ELSE res'.ok /\ res'.jobId = sent'.jobId
        /\ (rev = "server" /\ ev'.op = "tool-settle")
           => \A s \in Slots :
                pend'[s] # pend[s] => res'.ok /\ res'.jobId = pend[s].cur.jobId
      ]_vars

\* a repeated create_intake: the call already has a minted job id, which is reused
C2_Witness ==
    /\ rev = "server"
    /\ ev.op = "create_intake"
    /\ ev.callId \in CallIds
    /\ ev.minted = ""
    /\ sent.event = "tool-create_intake"
    /\ sent.jobId \in GeneratedJobIds
    /\ callToJob[ev.callId] = sent.jobId

\* C3: after an update_intake with a non-empty call id c and an explicit job id
\* j (args.jobId or args["Job ID"], as the handler reads it: trimmed, non-empty)
\* the table maps c to j whatever it held before and the record carries j; an
\* end-of-call-report for a c of the table writes its record under the job id
\* the table holds, so under j after such an update_intake
C3_BindOverwrites ==
    /\ (/\ rev = "server"
        /\ ev.op = "update_intake"
        /\ ev.callId # ""
        /\ Trim(ev.explicit) # "")
       => /\ ev.callId \in DOMAIN callToJob
          /\ callToJob[ev.callId] = Trim(ev.explicit)
          /\ sent.jobId = Trim(ev.explicit)
    /\ (/\ rev = "server"
        /\ ev.op = "end-of-call-report"
        /\ ev.callId \in DOMAIN callToJob)
       => sent.jobId = callToJob[ev.callId]

\* an end-of-call-report for a call whose create_intake minted a job id and
\* whose update_intake then bound the explicit job id: the record carries the latter
C3_Witness ==
    /\ rev = "server"
    /\ ev.op = "end-of-call-report"
    /\ ev.callId \in CallIds
    /\ hist[ev.callId].created \in GeneratedJobIds
    /\ hist[ev.callId].rebound
    /\ sent.jobId = "jX"
    /\ callToJob[ev.callId] = "jX"

CorrelatedOps == {"create_intake", "update_intake", "end-of-call-report", "intake"}

C5_UncorrelatableProceeds ==
    (/\ rev = "server"
     /\ ev.op \in {"create_intake", "end-of-call-report", "intake"}
     /\ ev.callId = "")
    => /\ sent # NoRec
       /\ ev.minted \in generateJobId
       /\ sent.jobId = ev.minted
       /\ res.error = ""

----------------------------------------------------------------------------
(* Responses *)

\* C6: every response of /vapi/webhook has status 200: after the tool-call
\* loop (unknown tools, missing ids, failed sheet writes), after an
\* end-of-call-report whose sheet write fails, for any other event, and from
\* the catch of the handler
C6_VapiAlways200 ==
    resp.route = "/vapi/webhook" => resp.status = 200

\* the response to an end-of-call-report whose sheet write failed
C6_Witness ==
    /\ rev = "server"
    /\ ev.op = "eoc-settle-failed"
    /\ resp.route = "/vapi/webhook"
    /\ resp.status = 200

\* C7: every response of /webhooks/sms and /webhooks/inbound-sms has status
\* 200, also when the owner SMS, the owner email or the forward fails
C7_SmsAlways200 ==
    resp.route \in {"/webhooks/sms", "/webhooks/inbound-sms"} => resp.status = 200

\* C8: an /intake request with a non-empty call id c binds c to the job id it
\* creates, the one its response returns
C8_IntakeBinds ==
    (ev.op = "intake" /\ ev.callId # "")
    => IF rev = "part_003"
       THEN MapGet(callIdToJobId, ev.callId) = ev.minted
       ELSE MapGet(callToJob, ev.callId) = ev.minted

C10_EndOfCallReadsOnly ==
    [][ ev'.op = "end-of-call-report"
        => /\ callToJob' = callToJob
           /\ callIdToJobId' = callIdToJobId
      ]_vars

\* an end-of-call-report with a call id the table does not hold: a job id is
\* minted for the record and the table still does not hold the call id
C10_Witness ==
    /\ rev = "server"
    /\ ev.op = "end-of-call-report"
    /\ ev.callId \in CallIds
    /\ ev.minted \in GeneratedJobIds
    /\ sent.jobId = ev.minted
    /\ ev.callId \notin DOMAIN callToJob

----------------------------------------------------------------------------
(* The table over time; the tool-call results *)

\* the keys written so far stay, and a value changes or appears only in the
\* step of an event for that call id, which stores the job id of its record
TableGrows(old, new) ==
    /\ DOMAIN old \subseteq DOMAIN new
    /\ \A c \in DOMAIN new :
         (c \notin DOMAIN old \/ new[c] # old[c])
         => /\ ev'.op \in {"create_intake", "update_intake", "intake"}
            /\ ev'.callId = c
            /\ new[c] = sent'.jobId

\* C11: the correlation table only grows: no step removes a key, and each
\* key maps to one job id, the one most recently written for it (a value
\* appears or changes only in the step that writes it)
C11_TableOnlyGrows ==
    [][ /\ TableGrows(callToJob, callToJob')
        /\ TableGrows(callIdToJobId, callIdToJobId')
      ]_vars

\* both call ids are keys, and the entry of one has just been overwritten by
\* an update_intake
C11_Witness ==
    /\ rev = "server"
    /\ DOMAIN callToJob = CallIds
    /\ ev.op = "update_intake"
    /\ ev.callId \in CallIds
    /\ hist[ev.callId].rebound
    /\ callToJob[ev.callId] = sent.jobId
    /\ callToJob[ev.callId] # hist[ev.callId].created

\* C12: the handler of an event with n tool calls pushes exactly one result
\* per tool call, the i-th result for the i-th tool call with its toolCallId,
\* and answers { toolCallResults } with n entries after the n-th
C12_OneResultPerToolCall ==
    [][ \A s \in Slots :
          (pend[s].pc \in {"loop", "await_tool"} /\ pend'[s] # pend[s])
          => /\ pend'[s].pc = "await_tool"
                => /\ pend[s].pc = "loop"
                   /\ res' = NoRes
                   /\ pend'[s].i = pend[s].i
                   /\ pend'[s].k = pend[s].k
             /\ pend'[s].pc # "await_tool"
                => /\ res'.pos = pend[s].i
                   /\ res'.pos = pend[s].k + 1
                   /\ res'.toolCallId = getToolCallId(ToolCallAt(pend[s].i))
                   /\ IF pend[s].i < pend[s].n
                      THEN /\ pend'[s].pc = "loop"
                           /\ pend'[s].i = pend[s].i + 1
                           /\ pend'[s].k = pend[s].k + 1
                           /\ resp' = NoResp
                      ELSE /\ pend'[s].pc = "idle"
                           /\ resp'.route = "/vapi/webhook"
                           /\ resp'.status = 200
                           /\ resp'.body = "toolCallResults"
                           /\ resp'.n = pend[s].n
      ]_vars

\* the response to an event with two tool calls, the second of which failed
\* at the sheet
C12_Witness ==
    /\ rev = "server"
    /\ resp.body = "toolCallResults"
    /\ resp.n = 2
    /\ res.pos = 2
    /\ res.toolCallId = "t2"
    /\ ev.op = "tool-settle-failed"

----------------------------------------------------------------------------
(* The sheet relay: retries, the missing URL, failures *)

AwaitsSheet == {"await_tool", "await_eoc", "await_intake", "await_sheet"}

\* C13: a handler hands at most one record to postToSheet per event or tool
\* call and then awaits that one POST; when the POST settles (success,
\* non-success status or network failure) nothing is sent again: the handler
\* goes on to the next tool call or answers, and no other step re-sends
C13_NeverRetries ==
    [][ /\ sent' # NoRec
           => ev'.op \in {"create_intake", "update_intake", "end-of-call-report",
                          "intake", "other-event"}
        /\ \A s \in Slots :
          pend'[s] # pend[s]
          => /\ pend[s].pc \in AwaitsSheet
                => /\ sent' = NoRec
                   /\ \/ pend'[s].pc = "idle"
                      \/ /\ pend'[s].pc = "loop"
                         /\ pend'[s].i = pend[s].i + 1
             /\ (pend[s].pc \in {"idle", "loop"} /\ sent' # NoRec /\ SHEETS_WEBHOOK_URL)
                => /\ pend'[s].pc \in AwaitsSheet
                   /\ pend'[s].i = pend[s].i
             /\ (pend[s].pc \notin AwaitsSheet \cup {"idle", "loop"})
                => sent' = NoRec
      ]_vars

\* the sheet write of a create_intake has failed: the failure is reported in
\* the result and nothing is sent again
C13_Witness ==
    /\ rev = "server"
    /\ ev.op = "tool-settle-failed"
    /\ res.error = "Sheet write failed (create_intake)"
    /\ sent = NoRec

\* C14: without SHEETS_WEBHOOK_URL no POST is issued (no handler ever awaits
\* the sheet); a create_intake or update_intake that hands over its record
\* gets a result with ok: true and sheet: { skipped: true }, and an
\* end-of-call-report and an /intake are answered at once as on success
C14_SkippedWithoutUrl ==
    (rev \in {"server", "part_003"} /\ ~SHEETS_WEBHOOK_URL)
    => /\ \A s \in Slots : pend[s].pc \notin AwaitsSheet
       /\ (ev.op \in {"create_intake", "update_intake"} /\ sent # NoRec)
          => /\ res.ok
             /\ res.sheet = "skipped"
             /\ res.error = ""
             /\ res.jobId = sent.jobId
       /\ ev.op = "end-of-call-report"
          => /\ sent # NoRec
             /\ resp = IF rev = "server" THEN VapiOk ELSE Vapi3Ok
       /\ ev.op = "intake"
          => /\ sent # NoRec
             /\ resp.route = "/intake"
             /\ resp.status = 200
             /\ resp.body = "ok-jobId-photoLink"
             /\ resp.jobId = sent.jobId

\* an update_intake handled without a sheet URL
C14_Witness ==
    /\ rev = "server"
    /\ ~SHEETS_WEBHOOK_URL
    /\ ev.op = "update_intake"
    /\ sent.event = "tool-update_intake"
    /\ res.ok
    /\ res.sheet = "skipped"

\* C15: when the sheet write of a create_intake or update_intake fails, the
\* result of that tool call has ok: false and no job id, and the response, if
\* this was the last tool call, still has status 200; when the write of an
\* end-of-call-report or of an /intake settles, the response is the same
\* whether it failed or not: it depends only on what the handler held before
C15_FailureOnlyInToolResults ==
    [][ \A s \in Slots :
          pend'[s] # pend[s]
          => /\ pend[s].pc = "await_tool"
                => /\ ev'.op \in {"tool-settle", "tool-settle-failed"}
                   /\ res'.ok = (ev'.op = "tool-settle")
                   /\ ev'.op = "tool-settle-failed"
                      => /\ res'.jobId = ""
                         /\ res'.error = "Sheet write failed (" \o pend[s].cur.tool \o ")"
                   /\ resp' # NoResp => resp'.status = 200
             /\ pend[s].pc = "await_eoc"
                => /\ ev'.op \in {"eoc-settle", "eoc-settle-failed"}
                   /\ resp' = IF rev = "server" THEN VapiOk ELSE Vapi3Ok
             /\ pend[s].pc = "await_intake"
                => /\ ev'.op \in {"intake-settle", "intake-settle-failed"}
                   /\ resp' = IntakeResp(pend[s].cur.jobId, pend[s].cur.photoLink)
                   /\ pend[s].cur.jobId \in GeneratedJobIds
      ]_vars

\* the response to an /intake whose sheet write failed
C15_Witness ==
    /\ rev = "server"
    /\ ev.op = "intake-settle-failed"
    /\ resp.route = "/intake"
    /\ resp.status = 200
    /\ resp.body = "ok-jobId-photoLink"
    /\ resp.jobId \in GeneratedJobIds

----------------------------------------------------------------------------
(* Concurrency *)

\* C16: while the create_intake of one request awaits its sheet write for a
\* call id c it was the first to see, a create_intake for c in another request
\* (with no update_intake binding another job id to c in between) obtains the
\* same job id, mints nothing and leaves the table with the entry c -> that id
C16_ConcurrentCreateSameJobId ==
    [][ \A s, t \in Slots :
          (/\ rev = "server"
           /\ s # t
           /\ pend[t].pc = "await_tool"
           /\ pend[t].cur.tool = "create_intake"
           /\ pend[s].pc = "loop"
           /\ pend'[s] # pend[s]
           /\ ev'.op = "create_intake"
           /\ ev'.callId = pend[t].cur.callId
           /\ hist[ev'.callId].created = pend[t].cur.jobId
           /\ ~hist[ev'.callId].rebound)
          => /\ sent'.jobId = pend[t].cur.jobId
             /\ ev'.minted = ""
             /\ ev'.callId \in DOMAIN callToJob
             /\ callToJob' = callToJob
             /\ callToJob'[ev'.callId] = pend[t].cur.jobId
             /\ pend'[s].pc = "await_tool" => pend'[s].cur.jobId = pend[t].cur.jobId
      ]_vars

\* two requests await the sheet write of their create_intake for the same
\* call id, the only key of the table, under the same minted job id
C16_Witness ==
    /\ rev = "server"
    /\ ev.op = "create_intake"
    /\ ev.minted = ""
    /\ \A s \in Slots :
         /\ pend[s].pc = "await_tool"
         /\ pend[s].cur.tool = "create_intake"
         /\ pend[s].cur.callId = ev.callId
         /\ pend[s].cur.jobId = sent.jobId
    /\ sent.jobId \in GeneratedJobIds
    /\ DOMAIN callToJob = {ev.callId}
    /\ callToJob[ev.callId] = sent.jobId

----------------------------------------------------------------------------
(* Progress *)

\* what node's event loop guarantees: a handler that is not waiting for a
\* downstream call goes on, and what a step put out is read off.  Nothing
\* makes a downstream call (the fetch of postToSheet, the Twilio and SendGrid
\* clients, the forward) settle: none is given a timeout
LiveSpec ==
    /\ Spec
    /\ WF_vars(Observed)
    /\ \A s \in Slots : WF_vars(ToolCallStep(s))

\* C17: every request that is being handled is eventually answered, whatever
\* its downstream calls do, also when one of them never completes
C17_EveryRequestAnswered ==
    \A s \in Slots : (pend[s].pc # "idle") ~> (pend[s].pc = "idle")

----------------------------------------------------------------------------
(* /webhooks/inbound-sms *)

\* C18: when the forward to the voice platform completes, /webhooks/inbound-sms
\* answers 200 with exactly the body the voice platform returned (whatever it
\* is); when the forward fails it answers 200 with <Response></Response>
C18_InboundSmsPassThrough ==
    /\ ev.op = "forwarded"
       => /\ resp.route = "/webhooks/inbound-sms"
          /\ resp.status = 200
          /\ resp.body = ev.explicit
    /\ ev.op = "forward-failed"
       => /\ resp.route = "/webhooks/inbound-sms"
          /\ resp.status = 200
          /\ resp.body = "<Response></Response>"

\* the auto-reply of the voice platform handed back to the SMS webhook caller
C18_Witness ==
    /\ rev = "part_000"
    /\ ev.op = "forwarded"
    /\ ev.explicit = "<Response><Message>hi</Message></Response>"
    /\ resp.route = "/webhooks/inbound-sms"
    /\ resp.body = "<Response><Message>hi</Message></Response>"

----------------------------------------------------------------------------
(* The handlers as far as the structured data goes *)

\* the structured data of an /intake body or of an end-of-call report
SdShapes ==
    [callbackNumber : {"", "Same number", "same number", "555-0000"},
     phone          : {"", "555-1234"},
     from           : {"", "+15550001"},
     jobType        : {"", "cleanup"},
     location       : {"", "garage"},
     size           : {"", "large"},
     deadline       : {"", "friday"},
     access         : {Nil, Str("stairs"), List(<<>>), List(<<"stairs", "gate">>)},
     specialItems   : {Nil, Str(""), Str("piano"), List(<<>>), List(<<"">>),
                       List(<<"couch", "fridge">>)}]

NormRevisions == {"server", "part_003", "part_001", "part_002"}

InitNorm ==
    /\ rev \in NormRevisions
    /\ SHEETS_WEBHOOK_URL = TRUE
    /\ OWNER_PHONE = TRUE
    /\ SENDGRID = FALSE
    /\ callToJob = EmptyMap
    /\ callIdToJobId = EmptyMap
    /\ pend = [s \in Slots |-> Idle]
    /\ ev = NoEv
    /\ sent = NoRec
    /\ res = NoRes
    /\ resp = NoResp
    /\ hist = [c \in CallIds |-> [created |-> "", rebound |-> FALSE]]
    /\ structuredData \in SdShapes
    /\ payload = NoPayload

\* an async handler that throws outside every try: express 4 leaves the
\* request unanswered (the rejection is unhandled), express 5 answers 500
Uncaught(route) ==
    { [NoResp EXCEPT !.body = "unhandled rejection"],
      Resp(route, 500, "Internal Server Error") }

\* a handler builds its record from the structured data and answers; built is
\* what the builder yields, answers the responses after a record was built,
\* thrown the responses when the builder threw
Handles(op, event, built, answers, thrown) ==
    /\ ev = NoEv
    /\ payload = NoPayload
    /\ payload' = built
    /\ ev' = Ev(op, "", "", "")
    /\ sent' = IF built.state = "built" THEN Rec(event, "", "job_a") ELSE NoRec
    /\ resp' \in IF built.state = "built" THEN answers ELSE thrown
    /\ UNCHANGED <<config, callToJob, callIdToJobId, pend, res, hist, structuredData>>

\* /intake of server.js: the payload is built before the try
IntakeBuilds ==
    /\ rev = "server"
    /\ Handles("intake", "http-intake", buildPayloadFromStructuredData(structuredData),
               {IntakeResp("job_a", UploadLink("job_a"))}, Uncaught("/intake"))

\* the end-of-call-report branch of server.js: the payload is built inside
\* the try of the handler, whose catch answers 200
EndOfCallBuilds ==
    /\ rev = "server"
    /\ Handles("end-of-call-report", "call-end",
               buildPayloadFromStructuredData(structuredData), {VapiOk}, {VapiOk})

\* /intake of part_003
IntakeBuilds3 ==
    /\ rev = "part_003"
    /\ Handles("intake", "intake", buildPayloadFromStructuredData3(structuredData),
               {IntakeResp("job_a", UploadLink("job_a"))}, Uncaught("/intake"))

\* the end-of-call-report branch of part_003
EndOfCallBuilds3 ==
    /\ rev = "part_003"
    /\ Handles("end-of-call-report", "call-end",
               buildPayloadFromStructuredData3(structuredData), {Vapi3Ok}, {Vapi3Ok})

\* /intake of part_001
IntakeBuilds1 ==
    /\ rev = "part_001"
    /\ Handles("intake", "intake", buildPayloadFromStructuredData1(structuredData),
               {IntakeResp("job_a", UploadLink("job_a"))}, Uncaught("/intake"))

\* the end-of-call-report branch of part_001
EndOfCallBuilds1 ==
    /\ rev = "part_001"
    /\ Handles("end-of-call-report", "call-end",
               buildPayloadFromStructuredData1(structuredData),
               {Resp("/vapi/webhook", 200, "ok")}, {Resp("/vapi/webhook", 200, "ok")})

\* /intake of part_002: the payload literal is built before the try
IntakeBuilds2 ==
    /\ rev = "part_002"
    /\ Handles("intake", "intake", buildPayload2(structuredData),
               {IntakeResp("job_a", UploadLink("job_a"))}, Uncaught("/intake"))

NormNext ==
    \/ IntakeBuilds
    \/ EndOfCallBuilds
    \/ IntakeBuilds3
    \/ EndOfCallBuilds3
    \/ IntakeBuilds1
    \/ EndOfCallBuilds1
    \/ IntakeBuilds2

NormSpec == InitNorm /\ [][NormNext]_vars

\* C19: whatever the shape of the structured data, /intake and the
\* end-of-call-report path build a record and give their normal success
\* response: no error response, no unanswered request
C19_MalformedNeverFails ==
    ev.op \in {"intake", "end-of-call-report"}
    => /\ payload.state = "built"
       /\ sent # NoRec
       /\ resp.status = 200
       /\ resp.body \in {"ok", "ok-jobId-photoLink"}

\* the phone rule as the specification words it
PhoneRule(d) ==
    IF d.callbackNumber # "" /\ d.callbackNumber # "Same number" THEN d.callbackNumber
    ELSE IF d.phone # "" THEN d.phone
    ELSE IF d.from # "" THEN d.from
    ELSE ""

\* C20: the Customer Phone of every record built is callbackNumber when that
\* is non-empty and not the literal "Same number", otherwise phone if
\* non-empty, otherwise from if non-empty, otherwise the empty string
C20_PhoneRule ==
    payload.state = "built" => payload.phone = PhoneRule(structuredData)

\* the placeholder falls back to the phone field
C20_Witness ==
    /\ rev = "server"
    /\ payload.state = "built"
    /\ structuredData.callbackNumber = "Same number"
    /\ structuredData.phone = "555-1234"
    /\ payload.phone = "555-1234"

\* the value of a field as the scope description shows it: a list joined
\* with ", ", a string as it is, an absent field empty
ScopeValue(v) ==
    IF v.kind = "list" THEN Join(v.list, ", ")
    ELSE IF v.kind = "string" THEN v.str ELSE ""

\* the scope description as the specification words it: one segment
\* "<label>: <value>" for each field, in the fixed order, whose value is
\* non-empty, joined with " | "
ScopeRule(d) ==
    LET fields == << <<"jobType", d.jobType>>, <<"location", d.location>>,
                     <<"size", d.size>>, <<"access", ScopeValue(d.access)>>,
                     <<"specialItems", ScopeValue(d.specialItems)>>,
                     <<"deadline", d.deadline>> >>
        filled == SelectSeq(fields, LAMBDA f : f[2] # "")
    IN  Join([i \in 1..Len(filled) |-> filled[i][1] \o ": " \o filled[i][2]], " | ")

\* C21: in server.js and part_003 the scope description of every record
\* built is the join with " | " of the segments "<label>: <value>" of exactly
\* the non-empty ones of jobType, location, size, access, specialItems,
\* deadline, in that order; an empty field gives no segment, and all empty
\* gives the empty string
C21_ScopeDescription ==
    (rev \in {"server", "part_003"} /\ payload.state = "built")
    => payload.description = ScopeRule(structuredData)

\* the same, in part_003 alone
C21_ScopeDescription3 ==
    (rev = "part_003" /\ payload.state = "built")
    => payload.description = ScopeRule(structuredData)

\* the example of the specification, in server.js
C21_Example ==
    /\ rev = "server"
    /\ payload.state = "built"
    /\ structuredData.jobType = "cleanup"
    /\ structuredData.specialItems = List(<<"couch", "fridge">>)
    /\ payload.description = "jobType: cleanup | specialItems: couch, fridge"

----------------------------------------------------------------------------
(* The order of the downstream steps of /webhooks/inbound-sms *)

\* the steps of one inbound-sms request in their order
InboundRank(pc) ==
    CASE pc = "idle" -> 0
      [] pc = "await_owner_sms" -> 1
      [] pc = "await_owner_email" -> 2
      [] pc = "await_forward" -> 3
      [] OTHER -> 4

\* C22: a POST /webhooks/inbound-sms runs owner SMS alert, owner email alert,
\* forward to the voice platform in that order, each started only when the
\* one before has settled; an alert is left out exactly when its
\* configuration is missing; the request ends only from the forward, which is
\* started once, whether the alerts failed, succeeded or were left out
C22_InboundOrder ==
    [][\A s \in Slots :
         (/\ pend'[s] # pend[s]
          /\ "/webhooks/inbound-sms" \in {pend[s].route, pend'[s].route})
         => /\ InboundRank(pend[s].pc) < 4
            /\ InboundRank(pend'[s].pc) < 4
            /\ pend[s].pc # "await_forward"
               => InboundRank(pend'[s].pc) > InboundRank(pend[s].pc)
            /\ pend[s].pc = "await_forward" <=> pend'[s].pc = "idle"
            /\ pend'[s].pc = "await_owner_sms" <=> (pend[s].pc = "idle" /\ OWNER_PHONE)
            /\ pend'[s].pc = "await_owner_email"
               <=> (SENDGRID /\ \/ pend[s].pc = "await_owner_sms"
                                \/ pend[s].pc = "idle" /\ ~OWNER_PHONE)
            /\ pend'[s].pc = "await_forward"
               => ev'.op \in {"inbound-sms", "alert-failed", "alert-sent"}
            /\ pend'[s].pc = "idle" => ev'.op \in {"forwarded", "forward-failed"}
    ]_vars

\* both alerts configured, the email alert has just failed and the forward
\* is under way
C22_Witness ==
    /\ rev = "part_000"
    /\ OWNER_PHONE
    /\ SENDGRID
    /\ ev.op = "alert-failed"
    /\ pend[1].pc = "await_forward"
    /\ pend[1].route = "/webhooks/inbound-sms"
    /\ pend[2].pc = "idle"

----------------------------------------------------------------------------
(* A create_intake whose sheet write fails *)

\* C23, as stated, up to the failed write: when the sheet write of a
\* create_intake for call id c fails, the result is ok: false without a job
\* id, the table is left as it is and maps c to the job id that create_intake
\* stored before the write
C23_FailedCreateKeepsEntry ==
    [][ \A s \in Slots :
          (/\ rev = "server"
           /\ pend[s].pc = "await_tool"
           /\ pend[s].cur.tool = "create_intake"
           /\ pend'[s] # pend[s]
           /\ ev'.op = "tool-settle-failed")
          => /\ res'.ok = FALSE
             /\ res'.jobId = ""
             /\ callToJob' = callToJob
             /\ MapGet(callToJob', pend[s].cur.callId) = pend[s].cur.jobId
      ]_vars

\* C23, amended: when the sheet write of a create_intake for call id c fails,
\* the result is ok: false without a job id and the table is left as it is;
\* provided no update_intake has bound another job id to c since the
\* create_intake stored its entry, the table still maps c to that job id, and
\* an end-of-call-report for c in a later request writes its record under it
C23_FailedCreateKeepsEntryUnlessRebound ==
    [][ /\ \A s \in Slots :
             (/\ rev = "server"
              /\ pend[s].pc = "await_tool"
              /\ pend[s].cur.tool = "create_intake"
              /\ pend'[s] # pend[s]
              /\ ev'.op = "tool-settle-failed")
             => /\ res'.ok = FALSE
                /\ res'.jobId = ""
                /\ res'.error = "Sheet write failed (create_intake)"
                /\ sent' = NoRec
                /\ callToJob' = callToJob
                /\ (/\ hist[pend[s].cur.callId].created = pend[s].cur.jobId
                    /\ ~hist[pend[s].cur.callId].rebound)
                   => MapGet(callToJob', pend[s].cur.callId) = pend[s].cur.jobId
        /\ (/\ rev = "server"
            /\ ev'.op = "end-of-call-report"
            /\ ev'.callId \in CallIds
            /\ hist[ev'.callId].created # ""
            /\ ~hist[ev'.callId].rebound)
           => /\ sent'.event = "call-end"
              /\ sent'.jobId = hist[ev'.callId].created
              /\ sent'.jobId = MapGet(callToJob, ev'.callId)
      ]_vars

\* the sheet write of the create_intake for c1 has just failed, and the table
\* holds c1 -> the job id that create_intake minted
C23_Witness ==
    /\ rev = "server"
    /\ ev.op = "tool-settle-failed"
    /\ res.ok = FALSE
    /\ res.error = "Sheet write failed (create_intake)"
    /\ DOMAIN callToJob = {"c1"}
    /\ hist["c1"].created \in GeneratedJobIds
    /\ ~hist["c1"].rebound
    /\ callToJob["c1"] = hist["c1"].created

----------------------------------------------------------------------------
(* Tool-call events and end-of-call reports *)

\* C24: a /vapi/webhook event of server.js in which the handler finds a
\* non-empty tool-call list is handled as a tool-call event only, also when
\* its type is "end-of-call-report": the handler enters the tool-call loop,
\* no step of the request hands a call-end record to the relay, and the
\* request ends with the toolCallResults body, one result per tool call
C24_ToolCallsOnly ==
    [][ /\ (/\ rev = "server"
            /\ ev'.op \in {"tool-calls", "end-of-call-report", "other-event"}
            /\ ev'.tools > 0)
           => /\ ev'.op = "tool-calls"
              /\ sent' = NoRec
              /\ resp' = NoResp
              /\ callToJob' = callToJob
              /\ \E s \in Slots : /\ pend[s].pc = "idle"
                                  /\ pend'[s].pc = "loop"
                                  /\ pend'[s].n = ev'.tools
        /\ \A s \in Slots :
             (/\ rev = "server"
              /\ pend[s].pc \in {"loop", "await_tool"}
              /\ pend'[s] # pend[s])
             => /\ sent'.event # "call-end"
                /\ ev'.op \notin {"end-of-call-report", "eoc-settle", "eoc-settle-failed"}
                /\ pend'[s].pc \in {"loop", "await_tool", "idle"}
                /\ pend'[s].pc = "idle"
                   => /\ resp'.route = "/vapi/webhook"
                      /\ resp'.status = 200
                      /\ resp'.body = "toolCallResults"
                      /\ resp'.n = pend[s].n
      ]_vars

\* an event of type end-of-call-report that carries tool calls has entered
\* the tool-call loop, and nothing was handed to the relay
C24_Witness ==
    /\ rev = "server"
    /\ ev.op = "tool-calls"
    /\ ev.type = "end-of-call-report"
    /\ ev.tools > 0
    /\ sent = NoRec
    /\ \E s \in Slots : pend[s].pc = "loop" /\ pend[s].n = ev.tools


----------------------------------------------------------------------------
(* Rejected tool calls *)

\* what the tool-call loop does after a result that ended the tool call of
\* slot s: on to the next tool call, or the response after the last
LoopGoesOn(s) ==
    IF pend[s].i < pend[s].n
    THEN /\ pend'[s].pc = "loop"
         /\ pend'[s].i = pend[s].i + 1
         /\ resp' = NoResp
    ELSE /\ pend'[s].pc = "idle"
         /\ resp'.body = "toolCallResults"
         /\ resp'.n = pend[s].n

\* C25: an update_intake with no explicit job id and no table entry for its
\* call id, a create_intake with no call id, and a tool call with any other
\* name each get a result with ok: false; a tool call that is rejected in the
\* loop hands no record to postToSheet, leaves the correlation table as it
\* is, and the loop goes on to the remaining tool calls of the event
C25_RejectedNoSideEffects ==
    [][ \A s \in Slots :
          (/\ rev = "server"
           /\ pend[s].pc = "loop"
           /\ pend'[s] # pend[s])
          => /\ (/\ ev'.op = "update_intake"
                 /\ ev'.explicit = ""
                 /\ MapGet(callToJob, ev'.callId) = "")
                => /\ ~res'.ok
                   /\ res'.error = "Missing jobId (and no callId->jobId mapping found)"
                   /\ pend'[s].pc # "await_tool"
             /\ (ev'.op = "create_intake" /\ ev'.callId = "")
                => /\ ~res'.ok
                   /\ res'.error = "Missing callId"
                   /\ pend'[s].pc # "await_tool"
             /\ ev'.op \notin {"create_intake", "update_intake"}
                => /\ ev'.op = "unhandled_tool"
                   /\ ~res'.ok
                   /\ pend'[s].pc # "await_tool"
             /\ (pend'[s].pc # "await_tool" /\ ~res'.ok)
                => /\ sent' = NoRec
                   /\ callToJob' = callToJob
                   /\ res'.jobId = ""
                   /\ res'.pos = pend[s].i
                   /\ LoopGoesOn(s)
      ]_vars

\* the first of two tool calls, an update_intake with nothing to find its job
\* id by, was rejected; the table is empty and the second is up next
C25_Witness ==
    /\ rev = "server"
    /\ ev.op = "update_intake"
    /\ ~res.ok
    /\ res.error = "Missing jobId (and no callId->jobId mapping found)"
    /\ res.pos = 1
    /\ sent = NoRec
    /\ callToJob = EmptyMap
    /\ pend[1].pc = "loop"
    /\ pend[1].i = 2
    /\ pend[1].n = 2

====
